---- MODULE Spec2Model ----
(***************************************************************************)
(* The game session controller of kidskills: the React hook useGameState.  *)
(*                                                                         *)
(* The repository holds two versions of the hook:                          *)
(*   "useGameState.js"  src/frontend/src/hooks/useGameState.js             *)
(*                      (1 point per correct answer, no streak)            *)
(*   "part_005"         src/unnamed/part_005                               *)
(*                      (10 points + streak bonus, streak counter)         *)
(* hookVersion says which one a behaviour runs; it never changes.          *)
(*                                                                         *)
(* React state is one variable per useState cell.  An async function of    *)
(* the hook is a closure over the values of the render in which it was     *)
(* created: what it reads after an await is what the state was when it was *)
(* CALLED.  A task record holds those captured values and the position of  *)
(* the function; a setter writes the state variable.                       *)
(*                                                                         *)
(* The timers of the components, the settings store, the submit state of   *)
(* QuestionDisplay, startGame's handling of the settings and the           *)
(* completion screen have sections of their own below.  Not modelled       *)
(* (display only): players, showConfetti, nextQuestionTimer.               *)
(***************************************************************************)
EXTENDS Integers, FiniteSets, Sequences, TLC

\* ---- bounds ----
\* calls of hook functions in one behaviour
MaxCalls == 5
\* async functions in flight at the same time
MaxInFlight == 2
\* calls of hook functions in one behaviour when every call waits for the
\* async functions in flight to finish
MaxSeqCalls == 8
\* players that can be selected
NumPlayers == 2
\* largest streak the bonus function is applied to (pure-function check)
MaxStreak == 20
\* answers still to give before the game is completed, in a game picked up
\* near its end
LateRounds == 2
\* longest answer text the evaluation functions are applied to
MaxAnswerLen == 2
\* feedbacks shown to the FeedbackDisplay component in one behaviour
MaxRounds == 2
\* invocations of onNext counted for one feedback
MaxOnNext == 2
\* calls of updateSettings in one behaviour
MaxUpdates == 3
\* calls of the hook's functions in one behaviour of the hook with its settings
MaxAppCalls == 3

\* ---- program constants ----
QUESTIONS_PER_GAME == 100
\* useState(4) of FeedbackDisplay: the seconds the countdown starts from
InitialTimeLeft == 4

Players == 1..NumPlayers
NoPlayer == 0
Null == [id |-> 0]
NoError == ""
\* variant of FetchError: the catch block stores no message
FetchError_None == ""

FetchError == "Failed to load question. Please try again."
SubmitError == "Failed to submit answer. Please try again."

\* the sub-activities a question can carry, one of each evaluation route
SubActivities == {"Addition/Subtraction", "Grammar Correction"}

VARIABLES
  hookVersion,          \* which version of the hook runs
  selectedPlayer,       \* useState(initialPlayer = null)
  currentQuestion,      \* useState(null)
  feedback,             \* useState(null)
  score,                \* useState(0)
  questionCount,        \* useState(0)
  streak,               \* useState(0), part_005 only
  gameCompleted,        \* useState(false)
  selectedAnswer,       \* useState(null)
  loading,              \* useState(false)
  startGameLoading,     \* useState(false)
  error,                \* useState('')
  loadingNextQuestion,  \* useState(false)
  tasks,                \* the async functions in flight, with their closures
  calls,                \* history: number of hook calls made so far
  session,              \* history: number of resetGameState() runs so far
  last,                 \* history: the step taken last
  pair,                 \* history: two handleAnswer calls in direct succession
  s1, s2, bonusOut,     \* inputs and outputs of the pure-function check
  evalIn, evalOut,      \* an answer to evaluate and the feedback stored for it
  fdMounted,            \* FeedbackDisplay is mounted (its interval runs)
  fdFeedback,           \* the feedback shown: 0 is null, n the n-th feedback
  timeLeft,             \* FeedbackDisplay: useState(4)
  fdDeferred,           \* FeedbackDisplay: the setTimeout(onNext, 300) pending
  fdRounds,             \* history: feedbacks shown so far
  onNextCalls,          \* history: onNext invocations by the timer, counted
                        \* under the feedback shown when they ran
  qdAnswering,          \* QuestionDisplay: onAnswer was called, no feedback yet
  qdNextQuestionTimer,  \* QuestionDisplay: useState(null), 0 is null
  qdPending,            \* QuestionDisplay: handles of its timeouts not cleared
  settings,             \* useState({subject, sub_activity, difficulty})
  corrections,          \* the corrections of sub_activity the effect has
                        \* scheduled and that have not run yet
  updates,              \* history: number of updateSettings calls so far
  settingsUpdate,       \* history: the argument of the last updateSettings
  localSubmitted,       \* QuestionDisplay (second version): the id of the
                        \* question on which setLocalSubmitted(true) ran, 0
                        \* before; the effect on [question?.id] sets the
                        \* flag back to false when the question's id changes
  gameSettings,         \* startGame: its local gameSettings
  startSettings,        \* history: customSettings || settings of the last
                        \* startGame, before any correction
  requested,            \* history: the subject, sub-activity and difficulty
                        \* the last startGame called api.getQuestion with
  quickStart            \* history: the argument of handleQuickStart when the
                        \* last startGame was made by it

hookVars == <<selectedPlayer, currentQuestion, feedback, score, questionCount,
              streak, gameCompleted, selectedAnswer, loading, startGameLoading,
              error, loadingNextQuestion>>
histVars == <<calls, session, last, pair>>
timerVars == <<fdMounted, fdFeedback, timeLeft, fdDeferred, fdRounds,
               onNextCalls, qdAnswering, qdNextQuestionTimer, qdPending>>
settingsVars == <<settings, corrections, updates, settingsUpdate>>
displayVars == <<localSubmitted>>
startVars == <<gameSettings, startSettings, requested, quickStart>>
compVars == <<timerVars, settingsVars, displayVars, startVars>>
pureVars == <<s1, s2, bonusOut, evalIn, evalOut, compVars>>
vars == <<hookVersion, hookVars, tasks, histVars, pureVars>>

NoPair == [a |-> 0, b |-> 0, questionCount |-> 0, score |-> 0, streak |-> 0,
           evaluated |-> {}]

\* a question as api.getQuestion returns it; id is fresh per request.
\* sess and via are history fields: the session in which the request was
\* issued and the function that issued it.
Question(t, sub, pid) ==
  [id |-> t.id, sub_activity |-> sub, player_id |-> pid,
   sess |-> t.sess, via |-> t.fn]

\* the closure of an async function called now
Task(fn, pc) ==
  [id |-> calls + 1, fn |-> fn, pc |-> pc,
   selectedPlayer |-> selectedPlayer, currentQuestion |-> currentQuestion,
   score |-> score, questionCount |-> questionCount, streak |-> streak,
   sess |-> session]

At(t, pc) == [t EXCEPT !.pc = pc]
Issued(t, pc) == [t EXCEPT !.pc = pc, !.sess = session]

Called(op) ==
  /\ calls' = calls + 1
  /\ last' = [op |-> op, id |-> calls + 1]

Stepped(op, t) == /\ calls' = calls
                  /\ last' = [op |-> op, id |-> t.id]

\* a JavaScript value of the field is_correct: a boolean, or a string
JsBoolean(b) == [type |-> "boolean", val |-> IF b THEN "true" ELSE "false"]
JsString(v) == [type |-> "string", val |-> v]

NoEvalIn == [sub_activity |-> "", answer |-> <<>>, q_answer |-> <<>>,
             q_correct_answer |-> <<>>, q_question |-> <<>>,
             outcome |-> "", upstream |-> JsBoolean(FALSE)]
NoEvalOut == [is_correct |-> JsBoolean(FALSE), correct_answer |-> <<>>,
              ai_evaluated |-> FALSE]

\* the components before they are mounted
TimerInit ==
  /\ fdMounted = FALSE
  /\ fdFeedback = 0
  /\ timeLeft = InitialTimeLeft
  /\ fdDeferred = <<>>
  /\ fdRounds = 0
  /\ onNextCalls = [r \in 0..MaxRounds |-> 0]
  /\ qdAnswering = FALSE
  /\ qdNextQuestionTimer = 0
  /\ qdPending = {}

\* useState of settings, useGameState.js lines 13-17
SettingsInit ==
  /\ settings = [subject |-> "Math", sub_activity |-> "Addition/Subtraction",
                 difficulty |-> "Easy"]
  /\ corrections = <<>>
  /\ updates = 0
  /\ settingsUpdate = [difficulty |-> "Easy"]

\* useState(false) of localSubmitted, QuestionDisplay.js line 270
DisplayInit == localSubmitted = 0

\* no startGame has been called
NoSettings == [subject |-> "", sub_activity |-> "", difficulty |-> ""]

StartInit ==
  /\ gameSettings = NoSettings
  /\ startSettings = NoSettings
  /\ requested = NoSettings
  /\ quickStart = NoSettings

CompInit == TimerInit /\ SettingsInit /\ DisplayInit /\ StartInit

Init ==
  /\ hookVersion \in {"useGameState.js", "part_005"}
  /\ selectedPlayer = NoPlayer
  /\ currentQuestion = Null
  /\ feedback = Null
  /\ score = 0
  /\ questionCount = 0
  /\ streak = 0
  /\ gameCompleted = FALSE
  /\ selectedAnswer = FALSE
  /\ loading = FALSE
  /\ startGameLoading = FALSE
  /\ error = NoError
  /\ loadingNextQuestion = FALSE
  /\ tasks = {}
  /\ calls = 0
  /\ session = 0
  /\ last = [op |-> "init", id |-> 0]
  /\ pair = NoPair
  /\ s1 = 0 /\ s2 = 0 /\ bonusOut = <<0, 0, 0, 0>>
  /\ evalIn = NoEvalIn /\ evalOut = NoEvalOut
  /\ CompInit

Replace(t, u) == tasks' = (tasks \ {t}) \cup {u}
Finish(t) == tasks' = tasks \ {t}

PairCleared == pair' = NoPair
PairKept == pair' = pair

(***************************************************************************)
(* src/frontend/src/hooks/useGameState.js                                  *)
(***************************************************************************)

\* variant of ResetCounters: setScore(0) and setQuestionCount(0) left out
ResetCounters_KeepScore ==
  /\ currentQuestion' = Null
  /\ feedback' = Null
  /\ score' = score
  /\ questionCount' = questionCount
  /\ gameCompleted' = FALSE
  /\ selectedAnswer' = FALSE
  /\ loadingNextQuestion' = FALSE
  /\ error' = NoError
  /\ streak' = streak
  /\ session' = session + 1

\* resetGameState without its last two setters (loading, startGameLoading)
ResetCounters ==
  /\ currentQuestion' = Null
  /\ feedback' = Null
  /\ score' = 0
  /\ questionCount' = 0
  /\ gameCompleted' = FALSE
  /\ selectedAnswer' = FALSE
  /\ loadingNextQuestion' = FALSE
  /\ error' = NoError
  /\ streak' = streak
  /\ session' = session + 1

resetGameState ==
  /\ ResetCounters
  /\ loading' = FALSE
  /\ startGameLoading' = FALSE

selectPlayer(player) ==
  /\ hookVersion = "useGameState.js"
  /\ selectedPlayer' = player
  /\ IF selectedPlayer # player
       THEN resetGameState
       ELSE UNCHANGED <<currentQuestion, feedback, score, questionCount,
                        streak, gameCompleted, selectedAnswer, loading,
                        startGameLoading, error, loadingNextQuestion, session>>
  /\ Called("selectPlayer")
  /\ PairCleared
  /\ UNCHANGED <<hookVersion, tasks, pureVars>>

\* resetGame called by caller with an argument whose truth value is
\* resetPlayer: if (resetPlayer) setSelectedPlayer(null)
resetGameBy(caller, resetPlayer) ==
  /\ hookVersion = "useGameState.js"
  /\ resetGameState
  /\ selectedPlayer' = IF resetPlayer THEN NoPlayer ELSE selectedPlayer
  /\ Called(caller)
  /\ PairCleared
  /\ UNCHANGED <<hookVersion, tasks, pureVars>>

resetGame(resetPlayer) ==
  resetGameBy(IF resetPlayer THEN "resetGame(true)" ELSE "resetGame",
              resetPlayer)

\* startGame up to its first await (the 300 ms delay)
startGameCall ==
  /\ hookVersion = "useGameState.js"
  /\ startGameLoading' = TRUE
  /\ loading' = TRUE
  /\ error' = NoError
  /\ tasks' = tasks \cup {Task("startGame", "delay1")}
  /\ Called("startGame")
  /\ PairCleared
  /\ UNCHANGED <<hookVersion, selectedPlayer, currentQuestion, feedback, score,
                 questionCount, streak, gameCompleted, selectedAnswer,
                 loadingNextQuestion, session>>

\* startGame() where the settings play no part: the question that comes back
\* is any question, and the branch for Gujarati letter tracing is never taken
\* (see isGujaratiTracing)
startGame == startGameCall /\ UNCHANGED pureVars

\* variant of missingPlayer: startGame goes on without a player
missingPlayer_Ignored(t) == FALSE

\* if (!selectedPlayer), on the selectedPlayer of the closure
missingPlayer(t) == t.selectedPlayer = NoPlayer

\* after the first delay: resetGameState(), the loading flags restored, and
\* the early return when the closure has no player
startGameReset(t) ==
  /\ hookVersion = "useGameState.js"
  /\ t.fn = "startGame" /\ t.pc = "delay1"
  /\ ResetCounters
  /\ IF missingPlayer(t)
       THEN /\ startGameLoading' = FALSE
            /\ loading' = FALSE
            /\ Finish(t)
       ELSE /\ startGameLoading' = TRUE
            /\ loading' = TRUE
            /\ Replace(t, At(t, "delay2"))
  /\ Stepped("startGameReset", t)
  /\ PairCleared
  /\ UNCHANGED <<hookVersion, selectedPlayer, pureVars>>

\* after the second delay: api.getQuestion is called
startGameFetch(t) ==
  /\ hookVersion = "useGameState.js"
  /\ t.fn = "startGame" /\ t.pc = "delay2"
  /\ Replace(t, Issued(t, "getQuestion"))
  /\ Stepped("startGameFetch", t)
  /\ PairKept
  /\ UNCHANGED <<hookVersion, hookVars, session, pureVars>>

\* api.getQuestion resolves: setCurrentQuestion(question), then the third delay
startGameQuestion(t, sub) ==
  /\ hookVersion = "useGameState.js"
  /\ t.fn = "startGame" /\ t.pc = "getQuestion"
  /\ currentQuestion' = Question(t, sub, t.selectedPlayer)
  /\ Replace(t, At(t, "delay3"))
  /\ Stepped("startGameQuestion", t)
  /\ PairKept
  /\ UNCHANGED <<hookVersion, selectedPlayer, feedback, score, questionCount,
                 streak, gameCompleted, selectedAnswer, loading,
                 startGameLoading, error, loadingNextQuestion, session,
                 pureVars>>

\* api.getQuestion rejects: catch, finally
startGameError(t) ==
  /\ hookVersion = "useGameState.js"
  /\ t.fn = "startGame" /\ t.pc = "getQuestion"
  /\ error' = FetchError
  /\ startGameLoading' = FALSE
  /\ loading' = FALSE
  /\ Finish(t)
  /\ Stepped("startGameError", t)
  /\ PairKept
  /\ UNCHANGED <<hookVersion, selectedPlayer, currentQuestion, feedback, score,
                 questionCount, streak, gameCompleted, selectedAnswer,
                 loadingNextQuestion, session, pureVars>>

\* after the third delay: finally
startGameDone(t) ==
  /\ hookVersion = "useGameState.js"
  /\ t.fn = "startGame" /\ t.pc = "delay3"
  /\ startGameLoading' = FALSE
  /\ loading' = FALSE
  /\ Finish(t)
  /\ Stepped("startGameDone", t)
  /\ PairKept
  /\ UNCHANGED <<hookVersion, selectedPlayer, currentQuestion, feedback, score,
                 questionCount, streak, gameCompleted, selectedAnswer, error,
                 loadingNextQuestion, session, pureVars>>

\* variant of countAfter: the increment left out
countAfter_NoIncrement(t) == t.questionCount

\* variant of countAfter: a functional update, setQuestionCount(c => c + 1),
\* which reads the state at the time of the response
countAfter_Functional(t) == questionCount + 1

\* questionCount + 1 of the closure (setQuestionCount(questionCount + 1))
countAfter(t) == t.questionCount + 1

\* variant of scoreAfter: the point is added whatever the evaluation says
scoreAfter_Always(t, is_correct) == t.score + 1

\* if (result.is_correct) setScore(score + 1), score being the closure's
scoreAfter(t, is_correct) == IF is_correct THEN t.score + 1 ELSE score

\* variant of completedAfter: the target has to be exceeded
completedAfter_Strict(n) == IF n > QUESTIONS_PER_GAME THEN TRUE ELSE gameCompleted

\* the game is completed when the new count reaches QUESTIONS_PER_GAME
completedAfter(n) == IF n >= QUESTIONS_PER_GAME THEN TRUE ELSE gameCompleted

\* variant of usesAiEvaluation: the sub-activity is not looked at
usesAiEvaluation_Any(question) == TRUE

\* (isGrammarCorrection || isReadingComprehension) of handleAnswer; the
\* branch is taken when an aiEvaluation comes with the answer as well
usesAiEvaluation(question) ==
  question.sub_activity \in {"Grammar Correction", "Reading Comprehension"}

\* the early return of handleAnswer
handleAnswerRejected ==
  /\ hookVersion = "useGameState.js"
  /\ currentQuestion = Null \/ selectedPlayer = NoPlayer
  /\ Called("handleAnswerRejected")
  /\ PairCleared
  /\ UNCHANGED <<hookVersion, hookVars, tasks, session, pureVars>>

\* handleAnswer(answer, aiEvaluation) on a Grammar Correction or Reading
\* Comprehension question: no await, the closure is the current render
handleAnswerAI(is_correct) ==
  /\ hookVersion = "useGameState.js"
  /\ currentQuestion # Null /\ selectedPlayer # NoPlayer
  /\ usesAiEvaluation(currentQuestion)
  /\ LET t == Task("handleAnswer", "ai") IN
       /\ selectedAnswer' = TRUE
       /\ feedback' = [is_correct |-> is_correct, ai_evaluated |-> TRUE,
                       question |-> t.currentQuestion.id]
       /\ score' = scoreAfter(t, is_correct)
       /\ questionCount' = countAfter(t)
       /\ gameCompleted' = completedAfter(countAfter(t))
       /\ loading' = FALSE
  /\ Called("handleAnswerAI")
  /\ PairCleared
  /\ UNCHANGED <<hookVersion, selectedPlayer, currentQuestion, streak,
                 startGameLoading, error, loadingNextQuestion, tasks, session,
                 pureVars>>

\* handleAnswer(answer) up to the await of api.submitAnswer.  pair records
\* a call that directly follows another one whose request is still pending.
handleAnswerCall ==
  /\ hookVersion = "useGameState.js"
  /\ currentQuestion # Null /\ selectedPlayer # NoPlayer
  /\ selectedAnswer' = TRUE
  /\ loading' = TRUE
  /\ tasks' = tasks \cup {Task("handleAnswer", "submitAnswer")}
  /\ Called("handleAnswer")
  /\ pair' = IF last.op = "handleAnswer" /\ \E t \in tasks : t.id = last.id
               THEN [a |-> last.id, b |-> calls + 1,
                     questionCount |-> questionCount, score |-> score,
                     streak |-> streak, evaluated |-> {}]
               ELSE NoPair
  /\ UNCHANGED <<hookVersion, selectedPlayer, currentQuestion, feedback, score,
                 questionCount, streak, gameCompleted, startGameLoading, error,
                 loadingNextQuestion, session>>

\* handleAnswer(answer) called by a component that keeps no state of its own
handleAnswer == handleAnswerCall /\ UNCHANGED pureVars

PairEvaluated(t) ==
  pair' = IF t.id \in {pair.a, pair.b}
            THEN [pair EXCEPT !.evaluated = @ \cup {t.id}]
            ELSE NoPair

\* api.submitAnswer resolves
handleAnswerResult(t, is_correct) ==
  /\ hookVersion = "useGameState.js"
  /\ t.fn = "handleAnswer" /\ t.pc = "submitAnswer"
  /\ feedback' = [is_correct |-> is_correct, ai_evaluated |-> FALSE,
                  question |-> t.currentQuestion.id]
  /\ score' = scoreAfter(t, is_correct)
  /\ questionCount' = countAfter(t)
  /\ gameCompleted' = completedAfter(countAfter(t))
  /\ loading' = FALSE
  /\ Finish(t)
  /\ Stepped("handleAnswerResult", t)
  /\ PairEvaluated(t)
  /\ UNCHANGED <<hookVersion, selectedPlayer, currentQuestion, streak,
                 selectedAnswer, startGameLoading, error, loadingNextQuestion,
                 session, pureVars>>

\* api.submitAnswer rejects: catch, finally
handleAnswerError(t) ==
  /\ hookVersion = "useGameState.js"
  /\ t.fn = "handleAnswer" /\ t.pc = "submitAnswer"
  /\ error' = SubmitError
  /\ loading' = FALSE
  /\ Finish(t)
  /\ Stepped("handleAnswerError", t)
  /\ PairCleared
  /\ UNCHANGED <<hookVersion, selectedPlayer, currentQuestion, feedback, score,
                 questionCount, streak, gameCompleted, selectedAnswer,
                 startGameLoading, loadingNextQuestion, session, pureVars>>

\* nextQuestion up to its setTimeout(..., 1000)
nextQuestion ==
  /\ hookVersion = "useGameState.js"
  /\ loadingNextQuestion' = TRUE
  /\ tasks' = tasks \cup {Task("nextQuestion", "timeout")}
  /\ Called("nextQuestion")
  /\ PairCleared
  /\ UNCHANGED <<hookVersion, selectedPlayer, currentQuestion, feedback, score,
                 questionCount, streak, gameCompleted, selectedAnswer, loading,
                 startGameLoading, error, session, pureVars>>

\* variant of advanceFeedback: the feedback is left in place
advanceFeedback_Kept == feedback

\* setFeedback(null) of the timeout callback, before the new question is
\* fetched
advanceFeedback == Null

\* the timeout callback up to its await of the 100 ms delay
nextQuestionTimeout(t) ==
  /\ hookVersion = "useGameState.js"
  /\ t.fn = "nextQuestion" /\ t.pc = "timeout"
  /\ loading' = TRUE
  /\ error' = NoError
  /\ feedback' = advanceFeedback
  /\ selectedAnswer' = FALSE
  /\ Replace(t, At(t, "delay"))
  /\ Stepped("nextQuestionTimeout", t)
  /\ PairKept
  /\ UNCHANGED <<hookVersion, selectedPlayer, currentQuestion, score,
                 questionCount, streak, gameCompleted, startGameLoading,
                 loadingNextQuestion, session, pureVars>>

\* after the delay: api.getQuestion(selectedPlayer.id, ...) is called; with no
\* player in the closure, selectedPlayer.id throws into catch and finally
nextQuestionFetch(t) ==
  /\ hookVersion = "useGameState.js"
  /\ t.fn = "nextQuestion" /\ t.pc = "delay"
  /\ IF t.selectedPlayer = NoPlayer
       THEN /\ error' = FetchError
            /\ loading' = FALSE
            /\ loadingNextQuestion' = FALSE
            /\ Finish(t)
       ELSE /\ Replace(t, Issued(t, "getQuestion"))
            /\ UNCHANGED <<error, loading, loadingNextQuestion>>
  /\ Stepped("nextQuestionFetch", t)
  /\ PairKept
  /\ UNCHANGED <<hookVersion, selectedPlayer, currentQuestion, feedback, score,
                 questionCount, streak, gameCompleted, selectedAnswer,
                 startGameLoading, session, pureVars>>

\* api.getQuestion resolves: setCurrentQuestion(newQuestion), finally
nextQuestionQuestion(t, sub) ==
  /\ hookVersion = "useGameState.js"
  /\ t.fn = "nextQuestion" /\ t.pc = "getQuestion"
  /\ currentQuestion' = Question(t, sub, t.selectedPlayer)
  /\ loading' = FALSE
  /\ loadingNextQuestion' = FALSE
  /\ Finish(t)
  /\ Stepped("nextQuestionQuestion", t)
  /\ PairKept
  /\ UNCHANGED <<hookVersion, selectedPlayer, feedback, score, questionCount,
                 streak, gameCompleted, selectedAnswer, startGameLoading,
                 error, session, pureVars>>

\* api.getQuestion rejects: catch, finally
nextQuestionError(t) ==
  /\ hookVersion = "useGameState.js"
  /\ t.fn = "nextQuestion" /\ t.pc = "getQuestion"
  /\ error' = FetchError
  /\ loading' = FALSE
  /\ loadingNextQuestion' = FALSE
  /\ Finish(t)
  /\ Stepped("nextQuestionError", t)
  /\ PairKept
  /\ UNCHANGED <<hookVersion, selectedPlayer, currentQuestion, feedback, score,
                 questionCount, streak, gameCompleted, selectedAnswer,
                 startGameLoading, session, pureVars>>

(***************************************************************************)
(* src/unnamed/part_005: the version of the hook with a streak             *)
(***************************************************************************)

\* variant of streakBonus: the last branch left out
streakBonus_NoTop(n) ==
  IF n >= 2 /\ n < 4 THEN 5
  ELSE IF n >= 4 /\ n < 9 THEN 10
  ELSE IF n >= 9 /\ n < 14 THEN 15
  ELSE 0

\* let streakBonus = 0; if (streak >= 2 && streak < 4) ... of the closure's
\* streak, the streak BEFORE this answer
streakBonus(n) ==
  IF n >= 2 /\ n < 4 THEN 5
  ELSE IF n >= 4 /\ n < 9 THEN 10
  ELSE IF n >= 9 /\ n < 14 THEN 15
  ELSE IF n >= 14 THEN 20
  ELSE 0

\* if (result.is_correct) setStreak(streak + 1) else setStreak(0)
p005_streakAfter(t, is_correct) == IF is_correct THEN t.streak + 1 ELSE 0

\* if (result.is_correct) setScore(score + 10 + streakBonus)
p005_scoreAfter(t, is_correct) ==
  IF is_correct THEN t.score + 10 + streakBonus(t.streak) ELSE score

\* setQuestionCount(questionCount + 1)
p005_countAfter(t) == t.questionCount + 1

p005_resetGameState ==
  /\ currentQuestion' = Null
  /\ feedback' = Null
  /\ score' = 0
  /\ questionCount' = 0
  /\ streak' = 0
  /\ gameCompleted' = FALSE
  /\ selectedAnswer' = FALSE
  /\ loadingNextQuestion' = FALSE
  /\ error' = NoError
  /\ session' = session + 1

p005_selectPlayer(player) ==
  /\ hookVersion = "part_005"
  /\ selectedPlayer' = player
  /\ IF selectedPlayer # player
       THEN p005_resetGameState
       ELSE UNCHANGED <<currentQuestion, feedback, score, questionCount,
                        streak, gameCompleted, selectedAnswer, error,
                        loadingNextQuestion, session>>
  /\ Called("selectPlayer")
  /\ PairCleared
  /\ UNCHANGED <<hookVersion, loading, startGameLoading, tasks, pureVars>>

p005_resetGame(resetPlayer) ==
  /\ hookVersion = "part_005"
  /\ p005_resetGameState
  /\ selectedPlayer' = IF resetPlayer THEN NoPlayer ELSE selectedPlayer
  /\ Called(IF resetPlayer THEN "resetGame(true)" ELSE "resetGame")
  /\ PairCleared
  /\ UNCHANGED <<hookVersion, loading, startGameLoading, tasks, pureVars>>

\* startGame up to its await of api.getQuestion: resetGameState(), the early
\* return without a player, the loading flags
p005_startGame ==
  /\ hookVersion = "part_005"
  /\ p005_resetGameState
  /\ IF selectedPlayer = NoPlayer
       THEN UNCHANGED <<startGameLoading, loading, tasks>>
       ELSE /\ startGameLoading' = TRUE
            /\ loading' = TRUE
            /\ tasks' = tasks \cup
                 {[Task("startGame", "getQuestion") EXCEPT !.sess = session + 1]}
  /\ Called("startGame")
  /\ PairCleared
  /\ UNCHANGED <<hookVersion, selectedPlayer, pureVars>>

\* api.getQuestion resolves: setCurrentQuestion(question), finally
p005_startGameQuestion(t, sub) ==
  /\ hookVersion = "part_005"
  /\ t.fn = "startGame" /\ t.pc = "getQuestion"
  /\ currentQuestion' = Question(t, sub, NoPlayer)
  /\ startGameLoading' = FALSE
  /\ loading' = FALSE
  /\ Finish(t)
  /\ Stepped("startGameQuestion", t)
  /\ PairKept
  /\ UNCHANGED <<hookVersion, selectedPlayer, feedback, score, questionCount,
                 streak, gameCompleted, selectedAnswer, error,
                 loadingNextQuestion, session, pureVars>>

\* api.getQuestion rejects: catch, finally
p005_startGameError(t) ==
  /\ hookVersion = "part_005"
  /\ t.fn = "startGame" /\ t.pc = "getQuestion"
  /\ error' = FetchError
  /\ startGameLoading' = FALSE
  /\ loading' = FALSE
  /\ Finish(t)
  /\ Stepped("startGameError", t)
  /\ PairKept
  /\ UNCHANGED <<hookVersion, selectedPlayer, currentQuestion, feedback, score,
                 questionCount, streak, gameCompleted, selectedAnswer,
                 loadingNextQuestion, session, pureVars>>

\* the early return of handleAnswer
p005_handleAnswerRejected ==
  /\ hookVersion = "part_005"
  /\ currentQuestion = Null \/ selectedPlayer = NoPlayer
  /\ Called("handleAnswerRejected")
  /\ PairCleared
  /\ UNCHANGED <<hookVersion, hookVars, tasks, session, pureVars>>

\* handleAnswer(answer, aiEvaluation) on a Grammar Correction or Reading
\* Comprehension question: no await, the closure is the current render
p005_handleAnswerAI(is_correct) ==
  /\ hookVersion = "part_005"
  /\ currentQuestion # Null /\ selectedPlayer # NoPlayer
  /\ usesAiEvaluation(currentQuestion)
  /\ LET t == Task("handleAnswer", "ai") IN
       /\ selectedAnswer' = TRUE
       /\ feedback' = [is_correct |-> is_correct, ai_evaluated |-> TRUE,
                       question |-> t.currentQuestion.id]
       /\ streak' = p005_streakAfter(t, is_correct)
       /\ score' = p005_scoreAfter(t, is_correct)
       /\ questionCount' = p005_countAfter(t)
       /\ gameCompleted' = completedAfter(p005_countAfter(t))
       /\ loading' = FALSE
  /\ Called("handleAnswerAI")
  /\ PairCleared
  /\ UNCHANGED <<hookVersion, selectedPlayer, currentQuestion,
                 startGameLoading, error, loadingNextQuestion, tasks, session,
                 pureVars>>

\* handleAnswer(answer) up to the await of api.submitAnswer
p005_handleAnswer ==
  /\ hookVersion = "part_005"
  /\ currentQuestion # Null /\ selectedPlayer # NoPlayer
  /\ selectedAnswer' = TRUE
  /\ loading' = TRUE
  /\ tasks' = tasks \cup {Task("handleAnswer", "submitAnswer")}
  /\ Called("handleAnswer")
  /\ pair' = IF last.op = "handleAnswer" /\ \E t \in tasks : t.id = last.id
               THEN [a |-> last.id, b |-> calls + 1,
                     questionCount |-> questionCount, score |-> score,
                     streak |-> streak, evaluated |-> {}]
               ELSE NoPair
  /\ UNCHANGED <<hookVersion, selectedPlayer, currentQuestion, feedback, score,
                 questionCount, streak, gameCompleted, startGameLoading, error,
                 loadingNextQuestion, session, pureVars>>

\* api.submitAnswer resolves
p005_handleAnswerResult(t, is_correct) ==
  /\ hookVersion = "part_005"
  /\ t.fn = "handleAnswer" /\ t.pc = "submitAnswer"
  /\ feedback' = [is_correct |-> is_correct, ai_evaluated |-> FALSE,
                  question |-> t.currentQuestion.id]
  /\ streak' = p005_streakAfter(t, is_correct)
  /\ score' = p005_scoreAfter(t, is_correct)
  /\ questionCount' = p005_countAfter(t)
  /\ gameCompleted' = completedAfter(p005_countAfter(t))
  /\ loading' = FALSE
  /\ Finish(t)
  /\ Stepped("handleAnswerResult", t)
  /\ PairEvaluated(t)
  /\ UNCHANGED <<hookVersion, selectedPlayer, currentQuestion, selectedAnswer,
                 startGameLoading, error, loadingNextQuestion, session,
                 pureVars>>

\* api.submitAnswer rejects: catch, finally
p005_handleAnswerError(t) ==
  /\ hookVersion = "part_005"
  /\ t.fn = "handleAnswer" /\ t.pc = "submitAnswer"
  /\ error' = SubmitError
  /\ loading' = FALSE
  /\ Finish(t)
  /\ Stepped("handleAnswerError", t)
  /\ PairCleared
  /\ UNCHANGED <<hookVersion, selectedPlayer, currentQuestion, feedback, score,
                 questionCount, streak, gameCompleted, selectedAnswer,
                 startGameLoading, loadingNextQuestion, session, pureVars>>

\* nextQuestion up to its setTimeout(..., 2000)
p005_nextQuestion ==
  /\ hookVersion = "part_005"
  /\ loadingNextQuestion' = TRUE
  /\ tasks' = tasks \cup {Task("nextQuestion", "timeout")}
  /\ Called("nextQuestion")
  /\ PairCleared
  /\ UNCHANGED <<hookVersion, selectedPlayer, currentQuestion, feedback, score,
                 questionCount, streak, gameCompleted, selectedAnswer, loading,
                 startGameLoading, error, session, pureVars>>

\* the timeout callback up to its await of api.getQuestion; with no player in
\* the closure, selectedPlayer.id throws into catch and finally
p005_nextQuestionTimeout(t) ==
  /\ hookVersion = "part_005"
  /\ t.fn = "nextQuestion" /\ t.pc = "timeout"
  /\ IF t.selectedPlayer = NoPlayer
       THEN /\ error' = FetchError
            /\ loading' = FALSE
            /\ loadingNextQuestion' = FALSE
            /\ Finish(t)
       ELSE /\ error' = NoError
            /\ loading' = TRUE
            /\ Replace(t, Issued(t, "getQuestion"))
            /\ UNCHANGED loadingNextQuestion
  /\ Stepped("nextQuestionTimeout", t)
  /\ PairKept
  /\ UNCHANGED <<hookVersion, selectedPlayer, currentQuestion, feedback, score,
                 questionCount, streak, gameCompleted, selectedAnswer,
                 startGameLoading, session, pureVars>>

\* api.getQuestion resolves: the old feedback and answer are cleared and the
\* new question set, finally
p005_nextQuestionQuestion(t, sub) ==
  /\ hookVersion = "part_005"
  /\ t.fn = "nextQuestion" /\ t.pc = "getQuestion"
  /\ feedback' = Null
  /\ selectedAnswer' = FALSE
  /\ currentQuestion' = Question(t, sub, NoPlayer)
  /\ loading' = FALSE
  /\ loadingNextQuestion' = FALSE
  /\ Finish(t)
  /\ Stepped("nextQuestionQuestion", t)
  /\ PairKept
  /\ UNCHANGED <<hookVersion, selectedPlayer, score, questionCount, streak,
                 gameCompleted, startGameLoading, error, session, pureVars>>

\* api.getQuestion rejects: catch, finally
p005_nextQuestionError(t) ==
  /\ hookVersion = "part_005"
  /\ t.fn = "nextQuestion" /\ t.pc = "getQuestion"
  /\ error' = FetchError
  /\ loading' = FALSE
  /\ loadingNextQuestion' = FALSE
  /\ Finish(t)
  /\ Stepped("nextQuestionError", t)
  /\ PairKept
  /\ UNCHANGED <<hookVersion, selectedPlayer, currentQuestion, feedback, score,
                 questionCount, streak, gameCompleted, selectedAnswer,
                 startGameLoading, session, pureVars>>

(***************************************************************************)
(* The bonus functions applied to inputs drawn from 0..MaxStreak           *)
(***************************************************************************)

\* getStreakTooltip of QuestionDisplay, as the number of points it announces
\* for the streak that is displayed
getStreakTooltip(n) ==
  IF n >= 15 THEN 20
  ELSE IF n >= 10 THEN 15
  ELSE IF n >= 5 THEN 10
  ELSE IF n >= 3 THEN 5
  ELSE 0

applyBonus ==
  /\ bonusOut = <<0, 0, 0, 0>>
  /\ bonusOut' = <<streakBonus(s1), streakBonus(s2),
                   getStreakTooltip(s1 + 1), getStreakTooltip(s2 + 1)>>
  /\ last' = [op |-> "applyBonus", id |-> 0]
  /\ UNCHANGED <<hookVersion, hookVars, tasks, calls, session, pair, s1, s2,
                 evalIn, evalOut, compVars>>

InitBonus ==
  /\ hookVersion = "part_005"
  /\ selectedPlayer = NoPlayer
  /\ currentQuestion = Null
  /\ feedback = Null
  /\ score = 0
  /\ questionCount = 0
  /\ streak = 0
  /\ gameCompleted = FALSE
  /\ selectedAnswer = FALSE
  /\ loading = FALSE
  /\ startGameLoading = FALSE
  /\ error = NoError
  /\ loadingNextQuestion = FALSE
  /\ tasks = {}
  /\ calls = 0
  /\ session = 0
  /\ last = [op |-> "init", id |-> 0]
  /\ pair = NoPair
  /\ s1 \in 0..MaxStreak /\ s2 \in 0..MaxStreak
  /\ bonusOut = <<0, 0, 0, 0>>
  /\ evalIn = NoEvalIn /\ evalOut = NoEvalOut
  /\ CompInit

(***************************************************************************)
(* The evaluation of an answer, from the submit to the feedback stored     *)
(*   api.submitAnswer                     src/frontend/src/services/api.js *)
(*   evaluateGrammarCorrection, evaluateReadingComprehension               *)
(*                                        src/unnamed/part_019             *)
(*   DirectAnswerInput.handleSubmit       src/unnamed/part_013             *)
(*   handleAnswer                         useGameState.js                  *)
(* A text is a sequence of characters; the empty sequence stands for '',   *)
(* null and undefined alike, which the code tests alike (!x, x || y).      *)
(***************************************************************************)

Chars == {"a", "A", " "}
Texts == UNION {[1..n -> Chars] : n \in 0..MaxAnswerLen}

\* String.prototype.toLowerCase
toLowerCase(s) == [i \in 1..Len(s) |-> IF s[i] = "A" THEN "a" ELSE s[i]]

RECURSIVE trimStart(_)
trimStart(s) == IF s # <<>> /\ Head(s) = " " THEN trimStart(Tail(s)) ELSE s

RECURSIVE trimEnd(_)
trimEnd(s) ==
  IF s # <<>> /\ s[Len(s)] = " " THEN trimEnd(SubSeq(s, 1, Len(s) - 1)) ELSE s

\* String.prototype.trim
trim(s) == trimEnd(trimStart(s))

\* the truth value JavaScript gives a value of is_correct: a non-empty string
\* is true, "false" included
Truthy(x) == IF x.type = "boolean" THEN x.val = "true" ELSE x.val # ""

\* Boolean(response.data.is_correct)
Boolean(x) == JsBoolean(Truthy(x))

\* a || b on texts
Or(a, b) == IF a # <<>> THEN a ELSE b

\* the catch of evaluateGrammarCorrection and evaluateReadingComprehension:
\* userAnswer.toLowerCase().trim() === correctAnswer.toLowerCase().trim()
evaluateFallback(userAnswer, correctAnswer) ==
  [is_correct |->
     JsBoolean(trim(toLowerCase(userAnswer)) = trim(toLowerCase(correctAnswer)))]

\* evaluateGrammarCorrection / evaluateReadingComprehension: the response of
\* the evaluation service as it is, or the fallback when the request fails
evaluateAnswer(in, correctAnswer) ==
  IF in.outcome = "ok"
    THEN [is_correct |-> in.upstream]
    ELSE evaluateFallback(in.answer, correctAnswer)

\* question?.answer || question?.correct_answer || ""
correctAnswerFromQuestion(in) == Or(in.q_answer, in.q_correct_answer)

\* DirectAnswerInput.handleSubmit: the evaluation handed to onAnswer.  With a
\* required field of the question missing no request is made.
handleSubmit(in) ==
  IF in.q_question = <<>>
    THEN [is_correct |-> JsBoolean(FALSE),
          correct_answer |-> correctAnswerFromQuestion(in)]
    ELSE [is_correct |-> evaluateAnswer(in, correctAnswerFromQuestion(in)).is_correct,
          correct_answer |-> correctAnswerFromQuestion(in)]

\* handleAnswer, AI branch: the expected answer from the evaluation, else from
\* the question, else, for Grammar Correction, made up from the question text
\* (the question text itself when none of the known errors is in it)
expectedAnswer(aiEvaluation, in) ==
  LET fromFields == Or(aiEvaluation.correct_answer,
                       Or(in.q_answer, in.q_correct_answer))
  IN IF fromFields # <<>> THEN fromFields
     ELSE IF in.sub_activity = "Grammar Correction" THEN in.q_question
     ELSE <<>>

\* handleAnswer, AI branch: the result given to setFeedback
aiResult(aiEvaluation, in) ==
  [is_correct |-> aiEvaluation.is_correct,
   correct_answer |-> expectedAnswer(aiEvaluation, in),
   ai_evaluated |-> TRUE]

\* api.submitAnswer: the response with is_correct forced to a boolean; the
\* service answers with the answer it holds for the question
submitAnswerResult(in) ==
  [is_correct |-> Boolean(in.upstream),
   correct_answer |-> in.q_answer,
   ai_evaluated |-> FALSE]

\* a free-text answer goes through handleSubmit and handleAnswer's AI branch
evaluated ==
  /\ evalOut = NoEvalOut
  /\ evalOut' = aiResult(handleSubmit(evalIn), evalIn)
  /\ last' = [op |-> "evaluated", id |-> 0]
  /\ UNCHANGED <<hookVersion, hookVars, tasks, calls, session, pair, s1, s2,
                 bonusOut, evalIn, compVars>>

\* an answer goes through api.submitAnswer and handleAnswer's plain branch;
\* the service holds an answer for the question and its request succeeds
submitted ==
  /\ evalOut = NoEvalOut
  /\ evalIn.q_answer # <<>> /\ evalIn.outcome = "ok"
  /\ evalOut' = submitAnswerResult(evalIn)
  /\ last' = [op |-> "submitted", id |-> 0]
  /\ UNCHANGED <<hookVersion, hookVars, tasks, calls, session, pair, s1, s2,
                 bonusOut, evalIn, compVars>>

\* the answers handleSubmit lets through: if (!answer.trim() ...) return
InitEval ==
  /\ hookVersion = "useGameState.js"
  /\ selectedPlayer = NoPlayer
  /\ currentQuestion = Null
  /\ feedback = Null
  /\ score = 0
  /\ questionCount = 0
  /\ streak = 0
  /\ gameCompleted = FALSE
  /\ selectedAnswer = FALSE
  /\ loading = FALSE
  /\ startGameLoading = FALSE
  /\ error = NoError
  /\ loadingNextQuestion = FALSE
  /\ tasks = {}
  /\ calls = 0
  /\ session = 0
  /\ last = [op |-> "init", id |-> 0]
  /\ pair = NoPair
  /\ s1 = 0 /\ s2 = 0 /\ bonusOut = <<0, 0, 0, 0>>
  /\ evalIn \in [sub_activity : {"Grammar Correction", "Reading Comprehension"},
                 answer : {a \in Texts : trim(a) # <<>>},
                 q_answer : Texts,
                 q_correct_answer : {<<>>, <<"a">>},
                 q_question : {<<>>, <<"a">>},
                 outcome : {"ok", "fails"},
                 upstream : {JsBoolean(TRUE), JsBoolean(FALSE),
                             JsString("true"), JsString("false")}]
  /\ evalOut = NoEvalOut
  /\ CompInit

(***************************************************************************)
(* The timers of the components                                            *)
(*   FeedbackDisplay                src/unnamed/part_009                   *)
(*   QuestionDisplay.handleSubmit   src/frontend/src/components/           *)
(*                                  QuestionDisplay.js                     *)
(* The parent decides when FeedbackDisplay is mounted and which feedback   *)
(* it is given; onNext is the hook's nextQuestion.  A tick comes 1000 ms   *)
(* after the one before and a deferred onNext 300 ms after its tick, so a  *)
(* deferred call has run when the next tick comes.                         *)
(***************************************************************************)

HookUnchanged ==
  UNCHANGED <<hookVersion, hookVars, tasks, calls, session, pair, s1, s2,
              bonusOut, evalIn, evalOut, displayVars, startVars>>

TimerStepped(op) == last' = [op |-> op, id |-> 0]

Max(a, b) == IF a >= b THEN a ELSE b

clearTimeout(timers, timer) == timers \ {timer}

\* QuestionDisplay.handleSubmit: onAnswer(selectedChoice), then a timeout of
\* 6000 ms with an empty callback whose handle goes to nextQuestionTimer; the
\* effect on [question, nextQuestionTimer] runs after the render and clears
\* the timeout it finds there
qdHandleSubmit ==
  /\ ~qdAnswering /\ fdFeedback = 0
  /\ fdRounds < MaxRounds
  /\ qdAnswering' = TRUE
  /\ LET timer == qdNextQuestionTimer + 1 IN
       /\ qdNextQuestionTimer' = timer
       /\ qdPending' = clearTimeout(qdPending \cup {timer}, timer)
  /\ TimerStepped("qdHandleSubmit")
  /\ UNCHANGED <<fdMounted, fdFeedback, timeLeft, fdDeferred, fdRounds,
                 onNextCalls>>
  /\ HookUnchanged /\ UNCHANGED settingsVars

\* the answer is evaluated: setFeedback(result) of handleAnswer
showFeedback ==
  /\ qdAnswering /\ fdFeedback = 0
  /\ fdFeedback' = fdRounds + 1
  /\ fdRounds' = fdRounds + 1
  /\ qdAnswering' = FALSE
  /\ TimerStepped("showFeedback")
  /\ UNCHANGED <<fdMounted, timeLeft, fdDeferred, onNextCalls,
                 qdNextQuestionTimer, qdPending>>
  /\ HookUnchanged /\ UNCHANGED settingsVars

\* the feedback is taken away: setFeedback(null) of nextQuestion or of
\* resetGameState
hideFeedback ==
  /\ fdFeedback # 0
  /\ fdFeedback' = 0
  /\ TimerStepped("hideFeedback")
  /\ UNCHANGED <<fdMounted, timeLeft, fdDeferred, fdRounds, onNextCalls,
                 qdAnswering, qdNextQuestionTimer, qdPending>>
  /\ HookUnchanged /\ UNCHANGED settingsVars

\* FeedbackDisplay is mounted: useState(4), the effect starts the interval
fdMount ==
  /\ ~fdMounted
  /\ fdMounted' = TRUE
  /\ timeLeft' = InitialTimeLeft
  /\ TimerStepped("fdMount")
  /\ UNCHANGED <<fdFeedback, fdDeferred, fdRounds, onNextCalls, qdAnswering,
                 qdNextQuestionTimer, qdPending>>
  /\ HookUnchanged /\ UNCHANGED settingsVars

\* FeedbackDisplay is unmounted: the cleanup of the effect, clearInterval;
\* a deferred onNext stays scheduled
fdUnmount ==
  /\ fdMounted
  /\ fdMounted' = FALSE
  /\ TimerStepped("fdUnmount")
  /\ UNCHANGED <<fdFeedback, timeLeft, fdDeferred, fdRounds, onNextCalls,
                 qdAnswering, qdNextQuestionTimer, qdPending>>
  /\ HookUnchanged /\ UNCHANGED settingsVars

\* the interval callback: setTimeLeft(prevTime => ...), which schedules
\* onNext whenever the new value is 0
fdTick ==
  /\ fdMounted
  /\ fdDeferred = <<>>
  /\ LET newValue == Max(0, timeLeft - 1) IN
       /\ timeLeft' = newValue
       /\ fdDeferred' = IF newValue = 0
                          THEN Append(fdDeferred, [feedback |-> fdFeedback])
                          ELSE fdDeferred
  /\ TimerStepped("fdTick")
  /\ UNCHANGED <<fdMounted, fdFeedback, fdRounds, onNextCalls, qdAnswering,
                 qdNextQuestionTimer, qdPending>>
  /\ HookUnchanged /\ UNCHANGED settingsVars

\* the deferred callback runs: onNext()
fdOnNext ==
  /\ fdDeferred # <<>>
  /\ onNextCalls[fdFeedback] < MaxOnNext
  /\ onNextCalls' = [onNextCalls EXCEPT ![fdFeedback] = @ + 1]
  /\ fdDeferred' = Tail(fdDeferred)
  /\ TimerStepped("fdOnNext")
  /\ UNCHANGED <<fdMounted, fdFeedback, timeLeft, fdRounds, qdAnswering,
                 qdNextQuestionTimer, qdPending>>
  /\ HookUnchanged /\ UNCHANGED settingsVars

(***************************************************************************)
(* The settings store                                                      *)
(*   settings, the effect on [subject, sub_activity], updateSettings       *)
(*                              useGameState.js, src/unnamed/part_005      *)
(*   SUB_ACTIVITIES, getDefaultSubActivity                                 *)
(*                              src/frontend/src/constants.js              *)
(***************************************************************************)

\* the subjects the selector offers; Gujarati has no entry in SUB_ACTIVITIES
Subjects == {"Math", "English", "Gujarati"}
Difficulties == {"Easy", "Medium", "Hard"}

\* SUB_ACTIVITIES[subject] || []
SUB_ACTIVITIES(subject) ==
  CASE subject = "Math" ->
         <<"Addition/Subtraction", "Multiplication/Division", "Word Problems",
           "Mushroom Kingdom Calculations">>
    [] subject = "English" ->
         <<"Opposites/Antonyms", "Synonyms", "Reading Comprehension",
           "Nouns/Pronouns", "Grammar Correction",
           "Mushroom Kingdom Vocabulary">>
    [] OTHER -> <<>>

Range(seq) == {seq[i] : i \in DOMAIN seq}

includes(list, x) == x \in Range(list)

\* the sub-activities a caller can name: the registered ones and the one
\* startGame tests for
Activities ==
  Range(SUB_ACTIVITIES("Math")) \cup Range(SUB_ACTIVITIES("English"))
    \cup {"Letter Tracing"}

\* subject.charAt(0).toUpperCase() + subject.slice(1).toLowerCase()
subjectKey(subject) ==
  CASE subject \in {"Math", "math", "MATH"} -> "Math"
    [] subject \in {"English", "english", "ENGLISH"} -> "English"
    [] subject \in {"Gujarati", "gujarati", "GUJARATI"} -> "Gujarati"
    [] OTHER -> subject

\* SUB_ACTIVITIES[subjectKey]?.[0] || 'Addition/Subtraction'
getDefaultSubActivity(subject) ==
  LET list == SUB_ACTIVITIES(subjectKey(subject)) IN
    IF list # <<>> THEN list[1] ELSE "Addition/Subtraction"

\* { ...settings, ...newSettings }
merge(old, new) ==
  [k \in DOMAIN old |-> IF k \in DOMAIN new THEN new[k] ELSE old[k]]

\* the body of the effect: the correction it schedules for the settings s
effectCorrection(s) ==
  IF hookVersion = "useGameState.js"
    THEN IF ~includes(SUB_ACTIVITIES(s.subject), s.sub_activity)
           THEN <<getDefaultSubActivity(s.subject)>>
           ELSE <<>>
    ELSE IF /\ s.sub_activity # getDefaultSubActivity(s.subject)
            /\ ~includes(SUB_ACTIVITIES(s.subject), s.sub_activity)
           THEN <<getDefaultSubActivity(s.subject)>>
           ELSE <<>>

\* the effect runs after a render in which subject or sub_activity changed
runEffect(old, new) ==
  IF <<new.subject, new.sub_activity>> # <<old.subject, old.sub_activity>>
    THEN effectCorrection(new)
    ELSE <<>>

SettingsUnchanged ==
  UNCHANGED <<hookVersion, hookVars, tasks, calls, session, pair, s1, s2,
              bonusOut, evalIn, evalOut, timerVars, displayVars, startVars>>

\* updateSettings(newSettings), the render and the effect after it
updateSettings(newSettings) ==
  /\ updates < MaxUpdates
  /\ LET merged == merge(settings, newSettings) IN
       /\ settings' = merged
       /\ corrections' = corrections \o runEffect(settings, merged)
  /\ updates' = updates + 1
  /\ settingsUpdate' = newSettings
  /\ last' = [op |-> "updateSettings", id |-> 0]
  /\ SettingsUnchanged

\* a scheduled correction runs: setSettings(prev => ({...prev, sub_activity})),
\* the render and the effect after it
correctSettings ==
  /\ corrections # <<>>
  /\ LET corrected == [settings EXCEPT !.sub_activity = Head(corrections)] IN
       /\ settings' = corrected
       /\ corrections' = Tail(corrections) \o runEffect(settings, corrected)
  /\ last' = [op |-> "correctSettings", id |-> 0]
  /\ UNCHANGED <<updates, settingsUpdate>>
  /\ SettingsUnchanged

\* what the components pass to updateSettings
UpdateInputs ==
  {[subject |-> s] : s \in Subjects}
    \cup {[sub_activity |-> a] : a \in Activities}
    \cup {[difficulty |-> d] : d \in Difficulties}
    \cup {[subject |-> s, sub_activity |-> getDefaultSubActivity(s)] :
            s \in Subjects}

(***************************************************************************)
(* QuestionDisplay, second version (QuestionDisplay.js from line 255), as  *)
(* MainContent renders it: question is currentQuestion, submitted is       *)
(* feedback !== null, onAnswer is handleAnswer.                            *)
(***************************************************************************)

\* const isSubmitted = submitted || localSubmitted; localSubmitted is true
\* from handleSubmit until the effect on [question?.id] runs
isSubmitted ==
  \/ feedback # Null
  \/ currentQuestion # Null /\ localSubmitted = currentQuestion.id

\* MainContent shows the component for a question of a game not completed
QuestionDisplayed == currentQuestion # Null /\ ~gameCompleted

\* handleSubmit with a choice selected: the guard, setLocalSubmitted(true),
\* onAnswer(selectedChoice), which is handleAnswer without an evaluation
QuestionDisplay_handleSubmit ==
  /\ hookVersion = "useGameState.js"
  /\ QuestionDisplayed
  /\ ~loading /\ ~isSubmitted
  /\ localSubmitted' = currentQuestion.id
  /\ IF selectedPlayer = NoPlayer
       THEN /\ Called("handleAnswerRejected")
            /\ PairCleared
            /\ UNCHANGED <<hookVersion, hookVars, tasks, session>>
       ELSE handleAnswerCall
  /\ UNCHANGED <<s1, s2, bonusOut, evalIn, evalOut, timerVars, settingsVars,
                 startVars>>

(***************************************************************************)
(* startGame and the settings (useGameState.js lines 119-228), and the     *)
(* handlers that update the settings and start a game in one go.           *)
(***************************************************************************)

\* customSettings || settings
chosenSettings(customSettings) ==
  IF customSettings = NoSettings THEN settings ELSE customSettings

\* subActivitiesForSubject.includes(gameSettings.sub_activity)
isValidSubActivity(s) == includes(SUB_ACTIVITIES(s.subject), s.sub_activity)

\* { ...gameSettings, sub_activity: subActivitiesForSubject[0] ||
\*   "Addition/Subtraction" }
correctedSettings(s) ==
  LET subActivitiesForSubject == SUB_ACTIVITIES(s.subject) IN
    [s EXCEPT !.sub_activity =
       IF subActivitiesForSubject # <<>> THEN subActivitiesForSubject[1]
                                         ELSE "Addition/Subtraction"]

\* gameSettings.subject === 'Gujarati' &&
\* gameSettings.sub_activity === 'Letter Tracing'
isGujaratiTracing(s) ==
  s.subject = "Gujarati" /\ s.sub_activity = "Letter Tracing"

\* the part of startGame that deals with the settings, for the closure's
\* settings closure and the pending value pending of the settings state:
\* gameSettings is chosen and, when its sub-activity is not one of its
\* subject's, corrected and written to the state with setSettings
startGameSettings(customSettings, pending) ==
  LET chosen == chosenSettings(customSettings) IN
    /\ startSettings' = chosen
    /\ gameSettings' = IF isValidSubActivity(chosen)
                         THEN chosen ELSE correctedSettings(chosen)
    /\ LET written == IF isValidSubActivity(chosen)
                        THEN pending ELSE correctedSettings(chosen) IN
         /\ settings' = written
         /\ corrections' = corrections \o runEffect(settings, written)
    /\ requested' = NoSettings
    /\ UNCHANGED <<s1, s2, bonusOut, evalIn, evalOut, timerVars, displayVars>>

\* startGame(customSettings) up to its first await
startGameWith(customSettings) ==
  /\ startGameCall
  /\ startGameSettings(customSettings, settings)
  /\ quickStart' = NoSettings
  /\ UNCHANGED <<updates, settingsUpdate>>

\* App.handleQuickStart(quickSettings), and handleStartGame of
\* GameSelectorDropdown.js with tempSettings: updateSettings(quickSettings),
\* then startGame() of the same render, whose settings are those from before
\* the update; the two setSettings calls are batched and the last one wins
handleQuickStart(quickSettings) ==
  /\ updates < MaxUpdates
  /\ startGameCall
  /\ startGameSettings(NoSettings, merge(settings, quickSettings))
  /\ quickStart' = quickSettings
  /\ updates' = updates + 1
  /\ settingsUpdate' = quickSettings

\* handleStartGame of the later GameSelectorDropdown:
\* onUpdateSettings(tempSettings), then startGame(tempSettings) in a timeout
\* of 0 ms
handleStartGame(tempSettings) ==
  /\ updates < MaxUpdates
  /\ startGameCall
  /\ startGameSettings(tempSettings, merge(settings, tempSettings))
  /\ quickStart' = NoSettings
  /\ updates' = updates + 1
  /\ settingsUpdate' = tempSettings

\* after the second delay: the letter tracing branch, setCurrentQuestion(null)
\* and on to the third delay, or api.getQuestion(selectedPlayer.id,
\* gameSettings.subject, gameSettings.sub_activity, gameSettings.difficulty)
startGameBranch(t) ==
  /\ hookVersion = "useGameState.js"
  /\ t.fn = "startGame" /\ t.pc = "delay2"
  /\ IF isGujaratiTracing(gameSettings)
       THEN /\ currentQuestion' = Null
            /\ Replace(t, At(t, "delay3"))
            /\ UNCHANGED requested
       ELSE /\ Replace(t, Issued(t, "getQuestion"))
            /\ requested' = gameSettings
            /\ UNCHANGED currentQuestion
  /\ Stepped("startGameFetch", t)
  /\ PairKept
  /\ UNCHANGED <<hookVersion, selectedPlayer, feedback, score, questionCount,
                 streak, gameCompleted, selectedAnswer, loading,
                 startGameLoading, error, loadingNextQuestion, session>>
  /\ UNCHANGED <<s1, s2, bonusOut, evalIn, evalOut, timerVars, settingsVars,
                 displayVars, gameSettings, startSettings, quickStart>>

\* the settings a component can hand over in one piece
StartInputs ==
  {[subject |-> s, sub_activity |-> a, difficulty |-> d] :
     s \in Subjects, a \in {"Addition/Subtraction", "Synonyms",
                            "Letter Tracing"},
     d \in {"Hard"}}

\* the partial updates made between two games
AppUpdateInputs ==
  {[subject |-> s] : s \in Subjects} \cup {[sub_activity |-> "Letter Tracing"]}

(***************************************************************************)
(* The completion screen of MainContent                                    *)
(***************************************************************************)

\* the value React hands to an onClick handler: an object
ClickEvent == [type |-> "object", val |-> "click"]

\* onClick={resetGame}: the handler is resetGame itself, so its parameter
\* resetPlayer is the click event
StartNewGameArgument == ClickEvent

\* the button "Start New Game", shown when the game is completed
StartNewGame ==
  /\ gameCompleted
  /\ resetGameBy("StartNewGame", Truthy(StartNewGameArgument))

(***************************************************************************)
(* Specifications                                                          *)
(***************************************************************************)

\* a call of a function the hook returns may be made
MayCall == calls < MaxCalls /\ Cardinality(tasks) < MaxInFlight

\* the hook under every interleaving of calls, timers and responses: a call
\* of a function the hook returns, or a timer firing, or a request settling
Next ==
  \/ MayCall /\ \E p \in Players : selectPlayer(p)
  \/ MayCall /\ \E b \in BOOLEAN : resetGame(b)
  \/ MayCall /\ startGame
  \/ MayCall /\ handleAnswerRejected
  \/ MayCall /\ \E b \in BOOLEAN : handleAnswerAI(b)
  \/ MayCall /\ handleAnswer
  \/ MayCall /\ nextQuestion
  \/ MayCall /\ \E p \in Players : p005_selectPlayer(p)
  \/ MayCall /\ \E b \in BOOLEAN : p005_resetGame(b)
  \/ MayCall /\ p005_startGame
  \/ MayCall /\ p005_handleAnswerRejected
  \/ MayCall /\ \E b \in BOOLEAN : p005_handleAnswerAI(b)
  \/ MayCall /\ p005_handleAnswer
  \/ MayCall /\ p005_nextQuestion
  \/ \E t \in tasks : startGameReset(t)
  \/ \E t \in tasks : startGameFetch(t)
  \/ \E t \in tasks, sub \in SubActivities : startGameQuestion(t, sub)
  \/ \E t \in tasks : startGameError(t)
  \/ \E t \in tasks : startGameDone(t)
  \/ \E t \in tasks, b \in BOOLEAN : handleAnswerResult(t, b)
  \/ \E t \in tasks : handleAnswerError(t)
  \/ \E t \in tasks : nextQuestionTimeout(t)
  \/ \E t \in tasks : nextQuestionFetch(t)
  \/ \E t \in tasks, sub \in SubActivities : nextQuestionQuestion(t, sub)
  \/ \E t \in tasks : nextQuestionError(t)
  \/ \E t \in tasks, sub \in SubActivities : p005_startGameQuestion(t, sub)
  \/ \E t \in tasks : p005_startGameError(t)
  \/ \E t \in tasks, b \in BOOLEAN : p005_handleAnswerResult(t, b)
  \/ \E t \in tasks : p005_handleAnswerError(t)
  \/ \E t \in tasks : p005_nextQuestionTimeout(t)
  \/ \E t \in tasks, sub \in SubActivities : p005_nextQuestionQuestion(t, sub)
  \/ \E t \in tasks : p005_nextQuestionError(t)

Spec == Init /\ [][Next]_vars

\* a call is made only when nothing is in flight
MayCallSeq == calls < MaxSeqCalls /\ tasks = {}

\* the hook used sequentially
NextSeq ==
  \/ MayCallSeq /\ \E p \in Players : selectPlayer(p)
  \/ MayCallSeq /\ \E b \in BOOLEAN : resetGame(b)
  \/ MayCallSeq /\ startGame
  \/ MayCallSeq /\ handleAnswerRejected
  \/ MayCallSeq /\ \E b \in BOOLEAN : handleAnswerAI(b)
  \/ MayCallSeq /\ handleAnswer
  \/ MayCallSeq /\ nextQuestion
  \/ MayCallSeq /\ \E p \in Players : p005_selectPlayer(p)
  \/ MayCallSeq /\ \E b \in BOOLEAN : p005_resetGame(b)
  \/ MayCallSeq /\ p005_startGame
  \/ MayCallSeq /\ p005_handleAnswerRejected
  \/ MayCallSeq /\ \E b \in BOOLEAN : p005_handleAnswerAI(b)
  \/ MayCallSeq /\ p005_handleAnswer
  \/ MayCallSeq /\ p005_nextQuestion
  \/ \E t \in tasks : startGameReset(t)
  \/ \E t \in tasks : startGameFetch(t)
  \/ \E t \in tasks, sub \in SubActivities : startGameQuestion(t, sub)
  \/ \E t \in tasks : startGameError(t)
  \/ \E t \in tasks : startGameDone(t)
  \/ \E t \in tasks, b \in BOOLEAN : handleAnswerResult(t, b)
  \/ \E t \in tasks : handleAnswerError(t)
  \/ \E t \in tasks : nextQuestionTimeout(t)
  \/ \E t \in tasks : nextQuestionFetch(t)
  \/ \E t \in tasks, sub \in SubActivities : nextQuestionQuestion(t, sub)
  \/ \E t \in tasks : nextQuestionError(t)
  \/ \E t \in tasks, sub \in SubActivities : p005_startGameQuestion(t, sub)
  \/ \E t \in tasks : p005_startGameError(t)
  \/ \E t \in tasks, b \in BOOLEAN : p005_handleAnswerResult(t, b)
  \/ \E t \in tasks : p005_handleAnswerError(t)
  \/ \E t \in tasks : p005_nextQuestionTimeout(t)
  \/ \E t \in tasks, sub \in SubActivities : p005_nextQuestionQuestion(t, sub)
  \/ \E t \in tasks : p005_nextQuestionError(t)

SpecSeq == Init /\ [][NextSeq]_vars

\* a game picked up LateRounds answers before its end: every answer so far
\* was incorrect, nextQuestion has just delivered the question to answer
InitLate ==
  /\ hookVersion \in {"useGameState.js", "part_005"}
  /\ selectedPlayer = 1
  /\ \E sub \in SubActivities :
       currentQuestion =
         [id |-> 0, sub_activity |-> sub,
          player_id |-> IF hookVersion = "part_005" THEN NoPlayer ELSE 1,
          sess |-> 1, via |-> "nextQuestion"]
  /\ feedback = Null
  /\ score = 0
  /\ questionCount = QUESTIONS_PER_GAME - LateRounds
  /\ streak = 0
  /\ gameCompleted = FALSE
  /\ selectedAnswer = FALSE
  /\ loading = FALSE
  /\ startGameLoading = FALSE
  /\ error = NoError
  /\ loadingNextQuestion = FALSE
  /\ tasks = {}
  /\ calls = 0
  /\ session = 1
  /\ last = [op |-> "init", id |-> 0]
  /\ pair = NoPair
  /\ s1 = 0 /\ s2 = 0 /\ bonusOut = <<0, 0, 0, 0>>
  /\ evalIn = NoEvalIn /\ evalOut = NoEvalOut
  /\ CompInit

\* the end of a game, the hook used sequentially
SpecLate == InitLate /\ [][NextSeq]_vars

\* the evaluation of drawn answers
NextEval == evaluated \/ submitted

SpecEval == InitEval /\ [][NextEval]_vars

\* the bonus functions on drawn inputs
NextBonus == applyBonus

SpecBonus == InitBonus /\ [][NextBonus]_vars

\* the components under every order of renders, ticks and deferred calls
InitTimer == Init /\ hookVersion = "useGameState.js"

NextTimer ==
  \/ qdHandleSubmit
  \/ showFeedback
  \/ hideFeedback
  \/ fdMount
  \/ fdUnmount
  \/ fdTick
  \/ fdOnNext

SpecTimer == InitTimer /\ [][NextTimer]_vars

\* the same when timers that are due do fire; what the user and the parent
\* do is not forced
SpecTimerLive ==
  InitTimer /\ [][NextTimer]_vars /\ WF_vars(fdTick) /\ WF_vars(fdOnNext)

\* the settings store under every order of updates and corrections
NextSettings ==
  \/ \E newSettings \in UpdateInputs : updateSettings(newSettings)
  \/ correctSettings

SpecSettings == Init /\ [][NextSettings]_vars

\* the same when the timeouts of 0 ms the effect sets do run (in part_005 the
\* effect calls setSettings itself and the render that follows does come)
SpecSettingsLive == Init /\ [][NextSettings]_vars /\ WF_vars(correctSettings)

\* the hook driven through QuestionDisplay: answers are given with its
\* Submit button, one call at a time
NextDisplay ==
  \/ MayCallSeq /\ \E p \in Players : selectPlayer(p)
  \/ MayCallSeq /\ \E b \in BOOLEAN : resetGame(b)
  \/ MayCallSeq /\ startGame
  \/ MayCallSeq /\ QuestionDisplay_handleSubmit
  \/ MayCallSeq /\ nextQuestion
  \/ \E t \in tasks : startGameReset(t)
  \/ \E t \in tasks : startGameFetch(t)
  \/ \E t \in tasks, sub \in SubActivities : startGameQuestion(t, sub)
  \/ \E t \in tasks : startGameError(t)
  \/ \E t \in tasks : startGameDone(t)
  \/ \E t \in tasks, b \in BOOLEAN : handleAnswerResult(t, b)
  \/ \E t \in tasks : handleAnswerError(t)
  \/ \E t \in tasks : nextQuestionTimeout(t)
  \/ \E t \in tasks : nextQuestionFetch(t)
  \/ \E t \in tasks, sub \in SubActivities : nextQuestionQuestion(t, sub)
  \/ \E t \in tasks : nextQuestionError(t)

SpecDisplay == InitTimer /\ [][NextDisplay]_vars

\* the hook with its settings: games are started with and without settings
\* handed over, one call at a time
MayCallApp == calls < MaxAppCalls /\ tasks = {}

NextApp ==
  \/ MayCallApp /\ \E p \in Players : selectPlayer(p)
  \/ MayCallApp /\ \E c \in StartInputs \cup {NoSettings} : startGameWith(c)
  \/ MayCallApp /\ \E q \in StartInputs : handleQuickStart(q)
  \/ MayCallApp /\ \E q \in StartInputs : handleStartGame(q)
  \/ MayCallApp /\ \E u \in AppUpdateInputs : updateSettings(u)
  \/ correctSettings
  \/ \E t \in tasks : startGameReset(t)
  \/ \E t \in tasks : startGameBranch(t)
  \/ \E t \in tasks, sub \in SubActivities : startGameQuestion(t, sub)
  \/ \E t \in tasks : startGameError(t)
  \/ \E t \in tasks : startGameDone(t)

SpecApp == InitTimer /\ [][NextApp]_vars

\* the end of a game and what follows, the hook used sequentially: resetGame
\* is called by the "Start New Game" button and, without an argument, by the
\* game selector
InitCompletion == InitLate /\ hookVersion = "useGameState.js"

NextCompletion ==
  \/ MayCallSeq /\ \E p \in Players : selectPlayer(p)
  \/ MayCallSeq /\ resetGame(FALSE)
  \/ MayCallSeq /\ StartNewGame
  \/ MayCallSeq /\ startGame
  \/ MayCallSeq /\ \E b \in BOOLEAN : handleAnswerAI(b)
  \/ MayCallSeq /\ handleAnswer
  \/ MayCallSeq /\ nextQuestion
  \/ \E t \in tasks : startGameReset(t)
  \/ \E t \in tasks : startGameFetch(t)
  \/ \E t \in tasks, sub \in SubActivities : startGameQuestion(t, sub)
  \/ \E t \in tasks : startGameError(t)
  \/ \E t \in tasks : startGameDone(t)
  \/ \E t \in tasks, b \in BOOLEAN : handleAnswerResult(t, b)
  \/ \E t \in tasks : handleAnswerError(t)
  \/ \E t \in tasks : nextQuestionTimeout(t)
  \/ \E t \in tasks : nextQuestionFetch(t)
  \/ \E t \in tasks, sub \in SubActivities : nextQuestionQuestion(t, sub)
  \/ \E t \in tasks : nextQuestionError(t)

SpecCompletion == InitCompletion /\ [][NextCompletion]_vars

(***************************************************************************)
(* Properties                                                              *)
(***************************************************************************)

\* the step taken is the evaluation of a submitted answer: the response of
\* api.submitAnswer, or handleAnswer called with an AI evaluation
AnswerEvaluated == last'.op \in {"handleAnswerResult", "handleAnswerAI"}

\* C1: in every sequence of handleAnswer and nextQuestion calls, each made
\* when nothing is in flight, questionCount increases by exactly 1 for each
\* evaluated answer, correct or not, and increases at no other step.
C1_CountPerAnswer ==
  [][ /\ AnswerEvaluated => questionCount' = questionCount + 1
      /\ questionCount' > questionCount => AnswerEvaluated ]_vars

\* three answers were evaluated, the last one incorrect
C1_Witness ==
  /\ last.op = "handleAnswerResult"
  /\ questionCount = 3
  /\ ~feedback.is_correct

\* C2: when handleAnswer is called twice in direct succession, the second call
\* before the first evaluation resolves, then once both have resolved
\* questionCount is 1 more than before the pair and the score was awarded at
\* most once.
C2_DoubleSubmitCountsOnce ==
  (pair # NoPair /\ pair.evaluated = {pair.a, pair.b}) =>
     LET award == IF hookVersion = "part_005"
                    THEN 10 + streakBonus(pair.streak)
                    ELSE 1
     IN /\ questionCount = pair.questionCount + 1
        /\ score \in {pair.score, pair.score + award}

\* both evaluations of a pair have resolved, the later one correct
C2_Witness ==
  /\ pair # NoPair
  /\ pair.evaluated = {pair.a, pair.b}
  /\ feedback # Null /\ feedback.is_correct
  /\ score > pair.score

\* C3: the current question was never fetched by a request issued before the
\* last reset: after resetGameState, currentQuestion stays null until a fetch
\* issued after it resolves.
C3_NoStaleQuestion ==
  currentQuestion # Null => currentQuestion.sess = session

\* C4: the response of api.submitAnswer to a handleAnswer called before the
\* last reset changes neither feedback, score, questionCount nor
\* gameCompleted.
C4_StaleEvaluationIgnored ==
  [][ \A t \in tasks :
        (last'.op = "handleAnswerResult" /\ last'.id = t.id /\ t.sess # session)
          => UNCHANGED <<feedback, score, questionCount, gameCompleted>> ]_vars

\* C5: the question fetched by a startGame is discarded on arrival when
\* startGame was called again after it, whether the later call's question has
\* arrived already or not.
C5_EarlierStartDiscarded ==
  [][ \A t \in tasks :
        ( /\ last'.op = "startGameQuestion" /\ last'.id = t.id
          /\ \/ \E u \in tasks : u.fn = "startGame" /\ u.id > t.id
             \/ /\ currentQuestion # Null
                /\ currentQuestion.via = "startGame"
                /\ currentQuestion.id > t.id )
          => currentQuestion' = currentQuestion ]_vars

\* C6: between two resets the score never decreases, whatever the
\* interleaving of calls and responses.
C6_ScoreNeverDecreases ==
  [][ session' = session => score' >= score ]_vars

\* C7: after every evaluated answer the streak is the number of correct
\* answers in a row: one more than before after a correct answer, 0 after an
\* incorrect one, and no other step changes it except a reset to 0.
C7_StreakCountsRun ==
  [][ /\ AnswerEvaluated =>
           streak' = IF feedback'.is_correct THEN streak + 1 ELSE 0
      /\ ~AnswerEvaluated => streak' \in {streak, 0} ]_vars

\* C8: a correct answer gives streak' = streak + 1 and
\* score' = score + 10 + bonus(streak'), the bonus of the resulting streak.
C8_CorrectAnswerAward ==
  [][ (AnswerEvaluated /\ feedback'.is_correct) =>
         /\ streak' = streak + 1
         /\ score' = score + 10 + getStreakTooltip(streak') ]_vars

\* C9: the streak bonus is 0 while the resulting streak is below 3, and for
\* two streaks s1 <= s2 the bonus of s1 is not larger than the bonus of s2;
\* the same for the bonus the streak badge announces.
C9_BonusMonotone ==
  last.op = "applyBonus" =>
     /\ s1 + 1 < 3 => bonusOut[1] = 0 /\ bonusOut[3] = 0
     /\ s1 <= s2 => bonusOut[1] <= bonusOut[2] /\ bonusOut[3] <= bonusOut[4]

\* the bonus was computed for a streak of the first tier and one of the last
C9_Witness ==
  /\ last.op = "applyBonus"
  /\ s1 < s2
  /\ bonusOut[1] = 5
  /\ bonusOut[2] = 20

\* C10: an incorrect answer leaves the score unchanged, sets the streak to 0
\* and increases questionCount by 1.
C10_IncorrectAnswer ==
  [][ (AnswerEvaluated /\ ~feedback'.is_correct) =>
         /\ score' = score
         /\ streak' = 0
         /\ questionCount' = questionCount + 1 ]_vars

\* an incorrect answer was evaluated after a correct one
C10_Witness ==
  /\ last.op \in {"handleAnswerResult", "handleAnswerAI"}
  /\ ~feedback.is_correct
  /\ score > 0
  /\ questionCount = 2

\* C11: gameCompleted is true exactly when questionCount has reached
\* QUESTIONS_PER_GAME, and it becomes true at the evaluation of the answer
\* that brings questionCount to QUESTIONS_PER_GAME, not earlier.
C11_CompletedIffTarget ==
  [][ /\ gameCompleted' <=> questionCount' >= QUESTIONS_PER_GAME
      /\ (~gameCompleted /\ gameCompleted') =>
            (AnswerEvaluated /\ questionCount' = QUESTIONS_PER_GAME) ]_vars

\* the answer that reaches the target has just been evaluated
C11_Witness ==
  /\ gameCompleted
  /\ questionCount = QUESTIONS_PER_GAME
  /\ last.op = "handleAnswerResult"

\* C12: once 5 answers have been evaluated the game is completed.
C12_CompletedAfterFive ==
  questionCount >= 5 => gameCompleted

\* C13: in a completed game a call of handleAnswer or nextQuestion changes
\* neither score, streak, questionCount, feedback nor the current question
\* and starts no request.
C13_CompletedIsTerminal ==
  [][ ( /\ gameCompleted
        /\ last'.op \in {"handleAnswer", "handleAnswerAI",
                          "handleAnswerRejected", "nextQuestion"} )
        => UNCHANGED <<score, streak, questionCount, feedback,
                       currentQuestion, tasks>> ]_vars

\* two texts are equal up to the case of their letters and to blanks around
\* them
SameText(a, b) ==
  LET core(s) == LET at == {i \in 1..Len(s) : s[i] # " "}
                 IN IF at = {} THEN <<>>
                    ELSE SubSeq(s, CHOOSE i \in at : \A j \in at : i <= j,
                                   CHOOSE i \in at : \A j \in at : i >= j)
      fold(c) == IF c = "A" THEN "a" ELSE c
  IN /\ Len(core(a)) = Len(core(b))
     /\ \A i \in 1..Len(core(a)) : fold(core(a)[i]) = fold(core(b)[i])

\* C14: when the evaluation service fails for a free-text answer, the
\* feedback stored has is_correct equal to the equality, up to case and
\* surrounding blanks, of the answer and the question's correct answer, and
\* has ai_evaluated = false.
C14_FallbackFeedback ==
  (last.op = "evaluated" /\ evalIn.outcome = "fails" /\ evalIn.q_question # <<>>)
    => /\ evalOut.is_correct =
            JsBoolean(SameText(evalIn.answer, correctAnswerFromQuestion(evalIn)))
       /\ evalOut.ai_evaluated = FALSE

\* the comparison of the fallback alone
FallbackComparesTexts ==
  (last.op = "evaluated" /\ evalIn.outcome = "fails" /\ evalIn.q_question # <<>>)
    => evalOut.is_correct =
         JsBoolean(SameText(evalIn.answer, correctAnswerFromQuestion(evalIn)))

\* C15: every feedback stored has a non-empty correct_answer.
C15_CorrectAnswerPopulated ==
  last.op \in {"evaluated", "submitted"} => evalOut.correct_answer # <<>>

\* C16: the is_correct of every feedback stored is a boolean, also when the
\* service sent the string "true" or "false".
C16_StrictBoolean ==
  last.op \in {"evaluated", "submitted"} => evalOut.is_correct.type = "boolean"

\* the plain path alone: api.submitAnswer stores a boolean
SubmitStoresBoolean ==
  last.op = "submitted" => evalOut.is_correct.type = "boolean"

\* C17: a call of handleAnswer while feedback is shown changes no counter,
\* replaces no feedback and starts no request.
C17_AnswerOnlyWhenActive ==
  [][ (feedback # Null /\ last'.op \in {"handleAnswer", "handleAnswerAI"})
        => UNCHANGED <<score, streak, questionCount, feedback, tasks>> ]_vars

\* C18: for one round at most one nextQuestion is under way: two calls made
\* for the same question and the same count do not both fetch.
C18_OneFetchPerRound ==
  \A t, u \in tasks :
     ( /\ t.fn = "nextQuestion" /\ u.fn = "nextQuestion"
       /\ t.currentQuestion = u.currentQuestion
       /\ t.questionCount = u.questionCount ) => t.id = u.id

\* C19: when the fetch of nextQuestion fails the error message is set and
\* both the feedback and the previous question are cleared.
C19_FailedAdvanceClears ==
  [][ last'.op = "nextQuestionError" =>
        /\ error' = FetchError
        /\ feedback' = Null
        /\ currentQuestion' = Null ]_vars

Part005Scoring ==
  [][ (hookVersion = "part_005" /\ AnswerEvaluated) =>
         IF feedback'.is_correct
           THEN /\ streak' = streak + 1
                /\ score' = score + 10 + getStreakTooltip(streak')
           ELSE streak' = 0 /\ score' = score ]_vars

\* part_005 alone: 5 correct answers in a row from a fresh session
Part005FiveCorrect ==
  (hookVersion = "part_005" /\ questionCount = 5 /\ streak = 5) => score = 70

\* useGameState.js alone: a correct answer is worth 1 point, no streak is kept
CurrentScoring ==
  [][ (hookVersion = "useGameState.js" /\ AnswerEvaluated) =>
         /\ streak' = 0
         /\ score' = score + (IF feedback'.is_correct THEN 1 ELSE 0) ]_vars

\* C21: when api.getQuestion of startGame rejects, a player is selected, the
\* error message is set, the current question and the feedback are null,
\* score, streak and questionCount are 0 and every loading flag is false.
C21_FailedStartIsIdle ==
  [][ last'.op = "startGameError" =>
        /\ selectedPlayer' # NoPlayer
        /\ error' # NoError
        /\ currentQuestion' = Null /\ feedback' = Null
        /\ score' = 0 /\ streak' = 0 /\ questionCount' = 0
        /\ ~loading' /\ ~startGameLoading' /\ ~loadingNextQuestion'
    ]_vars

\* startGame was called for the selected player after an earlier game of that
\* player, and its fetch has failed
C21_Witness ==
  /\ last.op = "startGameError"
  /\ selectedPlayer # NoPlayer
  /\ error # NoError
  /\ session >= 3 /\ last.id >= 4

C23_NoCarryOver ==
  [][ /\ (last'.op = "selectPlayer" /\ selectedPlayer' # selectedPlayer) =>
           /\ currentQuestion' = Null /\ feedback' = Null
           /\ score' = 0 /\ streak' = 0 /\ questionCount' = 0
      /\ \A t \in tasks :
           (last'.id = t.id /\ t.selectedPlayer # selectedPlayer) =>
             /\ currentQuestion' \in {currentQuestion, Null}
             /\ feedback' \in {feedback, Null}
             /\ UNCHANGED <<score, streak, questionCount>>
    ]_vars

\* a nextQuestion whose setTimeout has not fired yet
PendingTimers(ts) == {t \in ts : t.fn = "nextQuestion" /\ t.pc = "timeout"}

\* C24: resetGame clears score, streak, questionCount, the current question,
\* the feedback, gameCompleted and the error, leaves no timer pending, and
\* keeps the player unless it was called with resetPlayer = true, in which
\* case no player is selected.
C24_ResetGameClearsAll ==
  [][ last'.op \in {"resetGame", "resetGame(true)"} =>
        /\ score' = 0 /\ streak' = 0 /\ questionCount' = 0
        /\ currentQuestion' = Null /\ feedback' = Null
        /\ ~gameCompleted' /\ error' = NoError
        /\ selectedPlayer' =
             IF last'.op = "resetGame" THEN selectedPlayer ELSE NoPlayer
        /\ PendingTimers(tasks') = {}
    ]_vars

\* the state part of C24 alone: everything but the pending timers
ResetGameClearsState ==
  [][ last'.op \in {"resetGame", "resetGame(true)"} =>
        /\ score' = 0 /\ streak' = 0 /\ questionCount' = 0
        /\ currentQuestion' = Null /\ feedback' = Null
        /\ ~gameCompleted' /\ error' = NoError
        /\ selectedPlayer' =
             IF last'.op = "resetGame" THEN selectedPlayer ELSE NoPlayer
    ]_vars

\* C25: the countdown of FeedbackDisplay invokes onNext at most once while a
\* given feedback is shown and never while no feedback is shown.
C25_OneAdvancePerFeedback ==
  /\ onNextCalls[0] = 0
  /\ \A r \in 1..MaxRounds : onNextCalls[r] <= 1

\* the first half of C25 alone: no second invocation for one feedback
NoSecondAdvance == \A r \in 1..MaxRounds : onNextCalls[r] <= 1

\* C26: a timer set before the session was reset or the player changed
\* issues no question fetch: a nextQuestion whose timeout was pending at such
\* an event never reaches its api.getQuestion.
C26_NoFetchByCancelledTimer ==
  [][ \A t \in tasks :
        ( /\ last'.id = t.id
          /\ t.fn = "nextQuestion" /\ t.pc \in {"timeout", "delay"}
          /\ (t.sess # session \/ t.selectedPlayer # selectedPlayer) )
        => ~ \E u \in tasks' : u.id = t.id /\ u.pc = "getQuestion" ]_vars

\* the component's side of C26: the deferred onNext of FeedbackDisplay runs
\* only while the component is mounted and the feedback it was scheduled
\* under is still shown
DeferredRunsForShownFeedback ==
  [][ last'.op = "fdOnNext" =>
        /\ fdMounted
        /\ fdFeedback # 0
        /\ Head(fdDeferred).feedback = fdFeedback ]_vars

\* C27: whenever a feedback is shown, the timer eventually invokes the
\* advance for it (onNext, which starts the fetch of the next question)
\* unless the feedback is taken away first; no action of the user is needed.
C27_AutoProgressionLive ==
  \A r \in 1..MaxRounds :
    (fdFeedback = r) ~> (fdFeedback # r \/ onNextCalls[r] > 0)

\* FeedbackDisplay alone: while it stays mounted with a feedback, its
\* countdown does invoke onNext
MountedCountdownExpires ==
  \A r \in 1..MaxRounds :
    (fdFeedback = r /\ fdMounted)
       ~> (fdFeedback # r \/ ~fdMounted \/ onNextCalls[r] > 0)

Registered(subject) == Range(SUB_ACTIVITIES(subject))

\* C28: after every step of the settings store sub_activity is registered
\* for the subject, and a change of subject that leaves the old sub_activity
\* unregistered puts the first registered activity of the new subject there.
C28_SubActivityRegistered ==
  [][ /\ settings'.sub_activity \in Registered(settings'.subject)
      /\ ( /\ settings'.subject # settings.subject
           /\ settings.sub_activity \notin Registered(settings'.subject) )
         => /\ SUB_ACTIVITIES(settings'.subject) # <<>>
            /\ settings'.sub_activity = SUB_ACTIVITIES(settings'.subject)[1]
    ]_vars

\* what the effect does achieve: once no correction is pending, the
\* sub_activity of a subject that has registered activities is one of them
QuiescentSettingsValid ==
  (corrections = <<>> /\ SUB_ACTIVITIES(settings.subject) # <<>>)
     => settings.sub_activity \in Registered(settings.subject)

\* C29: updateSettings with a sub_activity that is not registered for the
\* current subject leaves subject, sub_activity and difficulty as they were.
C29_UnregisteredRejected ==
  [][ ( /\ last'.op = "updateSettings"
        /\ DOMAIN settingsUpdate' = {"sub_activity"}
        /\ settingsUpdate'.sub_activity \notin Registered(settings.subject) )
      => settings' = settings ]_vars

\* the api.submitAnswer requests in flight
SubmitRequests(ts) == {t \in ts : t.fn = "handleAnswer" /\ t.pc = "submitAnswer"}

\* C30: handleAnswer evaluates an answer from the aiEvaluation only on a
\* Grammar Correction or Reading Comprehension question, and then calls
\* api.submitAnswer not at all; every other answer, also one to such a
\* question that comes without aiEvaluation, issues exactly one
\* api.submitAnswer, and its feedback is not marked ai_evaluated.
C30_RouteByEvaluation ==
  [][ /\ last'.op = "handleAnswerAI" =>
           /\ currentQuestion.sub_activity
                \in {"Grammar Correction", "Reading Comprehension"}
           /\ feedback'.ai_evaluated
           /\ tasks' = tasks
      /\ last'.op = "handleAnswer" =>
           /\ SubmitRequests(tasks) \subseteq SubmitRequests(tasks')
           /\ Cardinality(SubmitRequests(tasks') \ SubmitRequests(tasks)) = 1
      /\ last'.op = "handleAnswerResult" => ~feedback'.ai_evaluated
      /\ ( /\ last'.op \in {"handleAnswer", "handleAnswerAI"}
           /\ currentQuestion.sub_activity
                \notin {"Grammar Correction", "Reading Comprehension"} )
         => last'.op = "handleAnswer"
    ]_vars

\* an answer to a Grammar Correction question that came without aiEvaluation
\* is being evaluated by api.submitAnswer
C30_Witness ==
  /\ last.op = "handleAnswer"
  /\ currentQuestion # Null
  /\ currentQuestion.sub_activity = "Grammar Correction"
  /\ \E t \in SubmitRequests(tasks) :
        t.id = last.id /\ t.currentQuestion = currentQuestion

\* C30 as stated: an answer to a Grammar Correction or Reading Comprehension
\* question always takes the aiEvaluation branch, an answer to any other
\* question issues exactly one api.submitAnswer.
C30_AlwaysAIForFreeText ==
  [][ last'.op \in {"handleAnswer", "handleAnswerAI"} =>
        IF currentQuestion.sub_activity
             \in {"Grammar Correction", "Reading Comprehension"}
          THEN last'.op = "handleAnswerAI"
          ELSE /\ last'.op = "handleAnswer"
               /\ Cardinality(SubmitRequests(tasks') \ SubmitRequests(tasks)) = 1
    ]_vars

(***************************************************************************)
(* Failures of api.submitAnswer                                            *)
(***************************************************************************)

SubmitFailed == last'.op = "handleAnswerError"

\* C31: when api.submitAnswer fails, the error message is set, feedback
\* stays null, score, streak and the number of rounds keep their values, and
\* the question can be answered again: it is still the current question and
\* QuestionDisplay's handleSubmit is not turned away by loading or isSubmitted
C31_SubmitFailureRecoverable ==
  [][SubmitFailed =>
       /\ error' = SubmitError
       /\ feedback' = Null
       /\ score' = score /\ streak' = streak
       /\ questionCount' = questionCount
       /\ currentQuestion' = currentQuestion
       /\ QuestionDisplayed'
       /\ ~loading' /\ ~isSubmitted']_vars

\* the part of C31 that holds: a failed submit sets the message and leaves
\* feedback, the counters and the question as they were
SubmitFailureKeepsCounters ==
  [][SubmitFailed =>
       /\ error' = SubmitError
       /\ feedback' = feedback
       /\ score' = score /\ streak' = streak
       /\ questionCount' = questionCount
       /\ currentQuestion' = currentQuestion
       /\ ~loading']_vars

\* after a failed submit the Submit button of QuestionDisplay never submits
\* the same question again
SubmitFailureBlocksRetry ==
  [][SubmitFailed => isSubmitted' /\ feedback' = Null]_vars

FetchFailed ==
  last'.op \in {"startGameError", "nextQuestionError", "p005_startGameError",
                "p005_nextQuestionError"}

\* C32: the error message is set only by a failed question fetch; a call
\* turned away and an answer that comes with an evaluation (the fallback
\* evaluation after a failed AI evaluation included) never set it, and an
\* answer that comes with an evaluation produces a feedback and counts the
\* round
C32_ErrorOnlyByFetch ==
  [][/\ (error' # NoError /\ error' # error) => FetchFailed
     /\ last'.op \in {"handleAnswerRejected", "handleAnswerAI"}
          => error' = error
     /\ last'.op = "handleAnswerAI"
          => feedback' # Null /\ questionCount' = questionCount + 1]_vars

\* the part of C32 that holds: a call turned away and an answer with an
\* evaluation leave the message alone, and the latter counts the round
AbsorbedFailuresKeepError ==
  [][/\ last'.op \in {"handleAnswerRejected", "handleAnswerAI"}
          => error' = error
     /\ last'.op = "handleAnswerAI"
          => feedback' # Null /\ questionCount' = questionCount + 1]_vars

(***************************************************************************)
(* Starting a game and the settings                                        *)
(***************************************************************************)

FetchPending == \E t \in tasks : t.fn = "startGame" /\ t.pc = "getQuestion"

\* C33: a game started with subject Gujarati and sub-activity Letter Tracing
\* keeps the settings at Gujarati / Letter Tracing and, when it comes to the
\* fetch, issues no api.getQuestion request and leaves currentQuestion null
C33_TracingSkipsFetch ==
  [][/\ (last'.op = "startGame" /\ isGujaratiTracing(startSettings')
           /\ isGujaratiTracing(settings))
          => settings' = settings
     /\ (last'.op = "startGameFetch" /\ isGujaratiTracing(startSettings))
          => /\ requested' = NoSettings /\ ~FetchPending'
             /\ currentQuestion' = Null]_vars

\* what the code does instead: Letter Tracing is not a sub-activity of any
\* subject of SUB_ACTIVITIES, so startGame replaces it, and every start that
\* gets as far as the fetch issues a request
TracingIsCorrectedAway ==
  /\ ~isGujaratiTracing(gameSettings)
  /\ last.op = "startGameFetch" => requested = gameSettings /\ FetchPending

\* C34: a game started by handleQuickStart(quickSettings), with a
\* sub-activity that is one of its subject's, fetches its first question
\* with the subject, sub-activity and difficulty of quickSettings
C34_QuickStartUsesQuickSettings ==
  [][(/\ last'.op = "startGameFetch"
      /\ quickStart # NoSettings /\ isValidSubActivity(quickStart))
       => requested' = quickStart]_vars

\* what the code does instead: startGame() reads the settings of the render
\* in which the handler was made, those from before the update, and fetches
\* with them
QuickStartUsesOldSettings ==
  [][/\ (last'.op = "startGame" /\ quickStart' # NoSettings)
          => startSettings' = settings
     /\ (last'.op = "startGameFetch" /\ quickStart # NoSettings
           /\ isValidSubActivity(startSettings))
          => requested' = startSettings]_vars

(***************************************************************************)
(* Resetting the game                                                      *)
(***************************************************************************)

GameCleared ==
  /\ currentQuestion = Null /\ feedback = Null
  /\ score = 0 /\ questionCount = 0
  /\ ~gameCompleted /\ ~selectedAnswer

\* C35: the "Start New Game" button and every resetGame call without an
\* explicit true argument keep the selected player and clear the game state
C35_ResetKeepsPlayer ==
  [][last'.op \in {"StartNewGame", "resetGame"}
       => selectedPlayer' = selectedPlayer /\ GameCleared']_vars

\* the part of C35 that holds: resetGame() without an argument keeps the
\* player and clears the game state
ResetWithoutArgumentKeepsPlayer ==
  [][last'.op = "resetGame"
       => selectedPlayer' = selectedPlayer /\ GameCleared']_vars

\* what the button does: the click event is a true resetPlayer, the player
\* is taken away with the game state
StartNewGameClearsPlayer ==
  [][last'.op = "StartNewGame"
       => selectedPlayer' = NoPlayer /\ GameCleared']_vars

(***************************************************************************)
(* The fixed point of the sub-activity correction                          *)
(***************************************************************************)

\* C36: after an updateSettings call the corrections come to an end, and
\* when none is pending the sub_activity is valid for the subject, also for
\* a subject without registered activities
C36_CorrectionReachesValidFixedPoint ==
  /\ (last.op = "updateSettings") ~> (corrections = <<>>)
  /\ [](corrections = <<>> => isValidSubActivity(settings))

\* the part of C36 that holds: the corrections come to an end
CorrectionTerminates ==
  (last.op = "updateSettings") ~> (corrections = <<>>)

\* the fixed point: a registered sub-activity of the subject or, when it has
\* none, the fallback of getDefaultSubActivity, which the effect's own test
\* does not accept
FixedPointIsRegisteredOrFallback ==
  corrections = <<>> =>
    IF SUB_ACTIVITIES(settings.subject) # <<>>
      THEN isValidSubActivity(settings)
      ELSE settings.sub_activity = "Addition/Subtraction"
             /\ ~isValidSubActivity(settings)

(***************************************************************************)
(* The loading flags                                                       *)
(***************************************************************************)

\* the task waits for api.getQuestion or api.submitAnswer
InFlight(t) == t.pc \in {"getQuestion", "submitAnswer"}

\* C37: while a question fetch or an answer submission of the hook is in
\* flight, loading is true, and so is startGameLoading for a fetch of
\* startGame and loadingNextQuestion for a fetch of nextQuestion; when no
\* request and no deferred callback is pending, the three flags are false
C37_LoadingWhileInFlight ==
  /\ \A t \in tasks :
       InFlight(t) =>
         /\ loading
         /\ t.fn = "startGame" => startGameLoading
         /\ t.fn = "nextQuestion" => loadingNextQuestion
  /\ tasks = {} => ~loading /\ ~startGameLoading /\ ~loadingNextQuestion

\* the part of C37 that holds under every interleaving: with nothing pending
\* the three flags are false
IdleFlagsFalse ==
  tasks = {} => ~loading /\ ~startGameLoading /\ ~loadingNextQuestion

(***************************************************************************)
(* Calls without a player                                                  *)
(***************************************************************************)

\* startGame has come to its test of selectedPlayer
StartTestsPlayer ==
  \/ last'.op = "startGameReset"
  \/ hookVersion = "part_005" /\ last'.op = "startGame"

\* C38: a startGame made while no player is selected ends at its test of
\* selectedPlayer: no question fetch is issued, currentQuestion is null,
\* score and questionCount are 0, loading and startGameLoading are false;
\* and a handleAnswer without a current question or without a player changes
\* nothing
C38_NoPlayerNoGame ==
  [][/\ (selectedPlayer = NoPlayer /\ StartTestsPlayer)
          => /\ tasks' = {}
             /\ currentQuestion' = Null
             /\ score' = 0 /\ questionCount' = 0
             /\ ~loading' /\ ~startGameLoading'
     /\ last'.op = "handleAnswerRejected"
          => UNCHANGED <<hookVars, tasks>>]_vars

\* a startGame of useGameState.js that was made without a player, after the
\* player of an earlier game was taken away, has ended
C38_Witness ==
  /\ hookVersion = "useGameState.js"
  /\ last.op = "startGameReset" /\ selectedPlayer = NoPlayer
  /\ tasks = {} /\ session >= 3

====
